---- MODULE Spec2Model ----
(***************************************************************************)
(* Model of the scrape_news management command                             *)
(* (news/management/commands/scrape_news.py) and of the part of            *)
(* news/models.py it reads and writes.                                     *)
(*                                                                         *)
(* A model response is a sequence of tokens. A token is a record with      *)
(* string fields t, k, v:                                                  *)
(*    t = "{" "}" "[" "]"   a JSON bracket                                 *)
(*    t = "p"               one character of prose (no bracket)            *)
(*    t = "key"             "k":       the key of a member whose value is  *)
(*                                     the object or array that follows    *)
(*    t = "member"          "k": "v"   a member with a string value        *)
(***************************************************************************)
EXTENDS Integers, Sequences, FiniteSets, TLC

\* ---------------------------------------------------------------- bounds

\* Longest run of tokens put before and after the payload of a response.
MaxAffix == 1
\* Most article objects in one generated model response.
MaxArticles == 2

\* slug = f"article-gemini-{hash(title) % 100000}"
SlugMod == 100000

\* ---------------------------------------------------------------- tokens

Tok(t) == [t |-> t, k |-> "", v |-> ""]
KeyTok(k) == [t |-> "key", k |-> k, v |-> ""]
MemberTok(k, v) == [t |-> "member", k |-> k, v |-> v]

LB == Tok("{")
RB == Tok("}")
LS == Tok("[")
RS == Tok("]")
P == Tok("p")

\* -------------------------------------------------- clean_json_response

\* str.find: the 0-based index of the first token of kind t, or -1.
RECURSIVE FindFrom(_, _, _)
FindFrom(text, t, i) ==
    IF i > Len(text) THEN -1
    ELSE IF text[i].t = t THEN i - 1
    ELSE FindFrom(text, t, i + 1)

Find(text, t) == FindFrom(text, t, 1)

\* str.rfind: the 0-based index of the last token of kind t, or -1.
RECURSIVE RFindFrom(_, _, _)
RFindFrom(text, t, i) ==
    IF i < 1 THEN -1
    ELSE IF text[i].t = t THEN i - 1
    ELSE RFindFrom(text, t, i - 1)

RFindFirst(text, t) == Find(text, t)

RFind(text, t) == RFindFrom(text, t, Len(text))

\* text[a:b] for 0 <= a, 0 <= b: empty when b <= a.
Slice(text, a, b) == SubSeq(text, a + 1, IF b > Len(text) THEN Len(text) ELSE b)

NoJson == [found |-> FALSE, text |-> <<>>]

\* The text from the first "{" to the last "}", or None (found = FALSE).
\* response.text is always a str, so the isinstance guard never fires.
clean_json_response(text) ==
    LET json_start == Find(text, "{")
        json_end == RFind(text, "}")
    IN  IF json_start = -1 \/ json_end = -1 THEN NoJson
        ELSE [found |-> TRUE, text |-> Slice(text, json_start, json_end + 1)]

\* ------------------------------------------------------------ json.loads

ParseFail == [ok |-> FALSE, val |-> [type |-> "none"], rest |-> <<>>]

StrVal(s) == [type |-> "str", s |-> s]

RECURSIVE ParseValue(_), ParseMembers(_, _), ParseElems(_, _)

\* One JSON value at the head of s: an object or an array.
ParseValue(s) ==
    IF Len(s) = 0 THEN ParseFail
    ELSE IF Head(s).t = "{" THEN ParseMembers(Tail(s), <<>>)
    ELSE IF Head(s).t = "[" THEN ParseElems(Tail(s), <<>>)
    ELSE ParseFail

\* The members of an object up to its closing brace.
ParseMembers(s, acc) ==
    IF Len(s) = 0 THEN ParseFail
    ELSE IF Head(s).t = "}"
        THEN [ok |-> TRUE, val |-> [type |-> "obj", members |-> acc], rest |-> Tail(s)]
    ELSE IF Head(s).t = "member"
        THEN ParseMembers(Tail(s), Append(acc, [k |-> Head(s).k, val |-> StrVal(Head(s).v)]))
    ELSE IF Head(s).t = "key"
        THEN LET r == ParseValue(Tail(s))
             IN  IF r.ok
                 THEN ParseMembers(r.rest, Append(acc, [k |-> Head(s).k, val |-> r.val]))
                 ELSE ParseFail
    ELSE ParseFail

\* The elements of an array up to its closing bracket.
ParseElems(s, acc) ==
    IF Len(s) = 0 THEN ParseFail
    ELSE IF Head(s).t = "]"
        THEN [ok |-> TRUE, val |-> [type |-> "arr", elems |-> acc], rest |-> Tail(s)]
    ELSE LET r == ParseValue(s)
         IN  IF r.ok THEN ParseElems(r.rest, Append(acc, r.val)) ELSE ParseFail

\* json.loads: the whole text must be one JSON value.
JsonLoads(s) ==
    LET r == ParseValue(s)
    IN  IF r.ok /\ Len(r.rest) = 0 THEN [ok |-> TRUE, val |-> r.val]
        ELSE [ok |-> FALSE, val |-> [type |-> "none"]]

\* ------------------------------------------------- pydantic: HttpUrl, str

\* The URL texts that occur in model responses, split as a URL parser
\* splits them: scheme, host, path.
UrlParts(u) ==
    CASE u = "http://x/a" -> [scheme |-> "http", host |-> "x", path |-> "/a"]
      [] u = "http://x" -> [scheme |-> "http", host |-> "x", path |-> ""]
      [] u = "http://x/" -> [scheme |-> "http", host |-> "x", path |-> "/"]
      [] OTHER -> [scheme |-> "", host |-> "", path |-> u]

\* source_url: HttpUrl accepts an absolute http(s) URL with a host.
IsHttpUrl(u) ==
    /\ UrlParts(u).scheme \in {"http", "https"}
    /\ UrlParts(u).host # ""

\* str(article_data.source_url): the URL written out again, an empty path
\* as "/".
StrUrl(u) ==
    LET parts == UrlParts(u)
    IN  parts.scheme \o "://" \o parts.host \o (IF parts.path = "" THEN "/" ELSE parts.path)

\* ------------------------------------------- pydantic: Article, ArticleList

NoMember == [has |-> FALSE, val |-> [type |-> "none"]]

\* dict lookup after json.loads: of members with the same key the last wins.
RECURSIVE Lookup(_, _, _)
Lookup(members, k, i) ==
    IF i < 1 THEN NoMember
    ELSE IF members[i].k = k THEN [has |-> TRUE, val |-> members[i].val]
    ELSE Lookup(members, k, i - 1)

HasStr(members, k) ==
    LET m == Lookup(members, k, Len(members))
    IN  m.has /\ m.val.type = "str"

GetStr(members, k) == Lookup(members, k, Len(members)).val.s

\* class Article(BaseModel): title: str, summary: str, source_url: HttpUrl
ArticleOk(val) ==
    /\ val.type = "obj"
    /\ HasStr(val.members, "title")
    /\ HasStr(val.members, "summary")
    /\ HasStr(val.members, "source_url")
    /\ IsHttpUrl(GetStr(val.members, "source_url"))

Article(val) ==
    [title |-> GetStr(val.members, "title"),
     summary |-> GetStr(val.members, "summary"),
     source_url |-> GetStr(val.members, "source_url")]

Invalid == [ok |-> FALSE, articles |-> <<>>]

\* A lenient validator that drops the article objects it cannot use.
RECURSIVE KeepValid(_)
KeepValid(elems) ==
    IF Len(elems) = 0 THEN <<>>
    ELSE IF ArticleOk(Head(elems)) THEN <<Article(Head(elems))>> \o KeepValid(Tail(elems))
    ELSE KeepValid(Tail(elems))

ArticlesLenient(elems) == [ok |-> TRUE, articles |-> KeepValid(elems)]

\* articles: List[Article]: every element must validate, or the whole list
\* is rejected.
Articles(elems) ==
    IF \A i \in 1..Len(elems) : ArticleOk(elems[i])
    THEN [ok |-> TRUE, articles |-> [i \in 1..Len(elems) |-> Article(elems[i])]]
    ELSE Invalid

\* ArticleList(**parsed_data)
ArticleList(val) ==
    IF val.type # "obj" THEN Invalid
    ELSE LET m == Lookup(val.members, "articles", Len(val.members))
         IN  IF ~m.has THEN Invalid
             ELSE IF m.val.type # "arr" THEN Invalid
             ELSE Articles(m.val.elems)

\* --------------------------------------------------- the inputs of a run

\* A field an article object of a generated response does not have.
Absent == "<absent>"

\* The article objects generated responses are built from: the well-formed
\* ones, one with an empty title, and one for each way of being defective.
ArticleInputs ==
    [title : {"T1", "T2"}, summary : {"S1", "S2"}, source_url : {"http://x/a", "http://x"}]
    \cup {[title |-> "", summary |-> "S1", source_url |-> "http://x/a"],
          [title |-> Absent, summary |-> "S1", source_url |-> "http://x/a"],
          [title |-> "T1", summary |-> Absent, source_url |-> "http://x/a"],
          [title |-> "T1", summary |-> "S1", source_url |-> Absent],
          [title |-> "T1", summary |-> "S1", source_url |-> "/rel"]}

SerMember(k, v) == IF v = Absent THEN <<>> ELSE <<MemberTok(k, v)>>

\* {"title": ..., "summary": ..., "source_url": ...}
SerArticle(a) ==
    <<LB>> \o SerMember("title", a.title) \o SerMember("summary", a.summary)
        \o SerMember("source_url", a.source_url) \o <<RB>>

RECURSIVE SerArticles(_)
SerArticles(as) ==
    IF Len(as) = 0 THEN <<>> ELSE SerArticle(Head(as)) \o SerArticles(Tail(as))

\* {"articles": [ ... ]}
SerObject(as) == <<LB, KeyTok("articles"), LS>> \o SerArticles(as) \o <<RS, RB>>

SeqsUpTo(S, n) == UNION {[1..m -> S] : m \in 0..n}

GoodArticle == [title |-> "T1", summary |-> "S1", source_url |-> "http://x/a"]

\* Payloads put between every pair of affixes: no JSON, an object without
\* "articles", "articles" that is no list, an empty list, one article, one
\* article with the closing brace cut off, two objects.
SmallPayloads ==
    {<<>>,
     <<LB, RB>>,
     <<LB, MemberTok("articles", "x"), RB>>,
     SerObject(<<>>),
     SerObject(<<GoodArticle>>),
     SubSeq(SerObject(<<GoodArticle>>), 1, Len(SerObject(<<GoodArticle>>)) - 1),
     SerObject(<<>>) \o SerObject(<<GoodArticle>>)}

\* What a model may write around the payload: prose and stray braces.
Affixes == SeqsUpTo({P, LB, RB}, MaxAffix)

\* The texts ValidatorSpec feeds the validator: every small payload between
\* every pair of affixes, and every list of article objects in prose.
Texts ==
    {pre \o pay \o suf : pre \in Affixes, suf \in Affixes, pay \in SmallPayloads}
    \cup {<<P>> \o SerObject(as) \o <<P>> : as \in SeqsUpTo(ArticleInputs, MaxArticles)}

\* The article objects of the responses of Spec: two URLs, a title and a
\* summary that change, a title shared by two URLs, an empty title.
RunArticles ==
    {[title |-> "T1", summary |-> "S1", source_url |-> "http://x/a"],
     [title |-> "T2", summary |-> "S2", source_url |-> "http://x/a"],
     [title |-> "T1", summary |-> "S1", source_url |-> "http://x"],
     [title |-> "", summary |-> "S1", source_url |-> "http://x/a"]}

\* The texts of the responses of Spec: one per way of failing, and every
\* list of run articles in prose.
RunTexts ==
    {<<P>>,
     <<LB, P, RB>>,
     <<LB, RB>>,
     SerObject(<<[GoodArticle EXCEPT !.source_url = "/rel"]>>)}
    \cup {<<P>> \o SerObject(as) \o <<P>> : as \in SeqsUpTo(RunArticles, MaxArticles)}

\* What generate_content does: raises, returns a response without parts, or
\* returns a response with a text.
RepliesOf(texts) ==
    {[raises |-> TRUE, parts |-> FALSE, text |-> <<>>],
     [raises |-> FALSE, parts |-> FALSE, text |-> <<>>]}
    \cup {[raises |-> FALSE, parts |-> TRUE, text |-> t] : t \in texts}

\* The replies of Spec and those of ValidatorSpec.
RunReplies == RepliesOf(RunTexts)
ValidatorReplies == RepliesOf(Texts)

\* The ScrapingSource rows, in the order the filter returns them.
ScrapingSource ==
    <<[name |-> "BBC", is_active |-> TRUE],
      [name |-> "cnn", is_active |-> TRUE],
      [name |-> "Old", is_active |-> FALSE],
      [name |-> "DW", is_active |-> TRUE]>>

\* --source: "" stands for an option that is not given.
SourceOptions == {"", "CNN", "old", "nope"}

\* GOOGLE_API_KEY: "" stands for a variable that is unset or empty.
ApiKeys == {"", "key"}

\* The ids of the published NewsListPage rows.
LiveListings == {{}, {2}, {1, 2}}

\* datetime.now().date(): the day of the run.
Days == {1}

\* hash() of a str is seeded per process: any function of the titles.
NonEmptyTitles == {"T1", "T2"}
HashSeeds == {[t \in NonEmptyTitles |-> IF t = "T1" THEN 7 ELSE h] : h \in {100007, 100013}}

\* ------------------------------------------------------------------ state

VARIABLES
    pc,         \* where the command is: "idle", "loop", "extract", "upsert",
                \* "done" (line 72), "returned" (an early return of handle),
                \* "raised" (an exception left handle)
    env,        \* GOOGLE_API_KEY, options['source'], the published
                \* NewsListPage rows and the date of the current run
    hashSeed,   \* the hash seed of the current process
    store,      \* the NewsArticlePage rows, in order of creation
    sources,    \* the resolved sources: indices into ScrapingSource
    next,       \* position in sources of the source being scraped
    response,   \* the text of the last model response of the current source
    verdict,    \* what lines 97-113 made of it
    arts,       \* validated_articles.articles not yet upserted
    trace,      \* the log lines, outside calls and traceback, in order, of the
                \* pass over the current source, or of handle outside any pass
    failed      \* the positions of the sources of the run whose pass ended
                \* in a logged failure of a stage

vars == <<pc, env, hashSeed, store, sources, next, response, verdict, arts, trace, failed>>

\* Entries of trace. src is the position of the source, 0 for handle itself.
Event(ev, src, what) == [ev |-> ev, src |-> src, what |-> what]
Info(src, what) == Event("info", src, what)
Error(src, what) == Event("error", src, what)

NoEnv == [api_key |-> "", source |-> "", live |-> {}, today |-> 1]

Init ==
    /\ pc = "idle"
    /\ env = NoEnv
    /\ hashSeed = [t \in NonEmptyTitles |-> 7]
    /\ store = <<>>
    /\ sources = <<>>
    /\ next = 1
    /\ response = <<>>
    /\ verdict = "none"
    /\ arts = <<>>
    /\ trace = <<>>
    /\ failed = {}

\* ----------------------------------------------------------------- handle

\* name__iexact compares without case.
Lower(name) ==
    CASE name = "BBC" -> "bbc"
      [] name = "CNN" -> "cnn"
      [] name = "Old" -> "old"
      [] OTHER -> name

\* The row is active and, when a source is named, has that name.
Matches(source, i) ==
    /\ ScrapingSource[i].is_active
    /\ source # "" => Lower(ScrapingSource[i].name) = Lower(source)

RECURSIVE FilterFrom(_, _)
FilterFrom(source, i) ==
    IF i > Len(ScrapingSource) THEN <<>>
    ELSE (IF Matches(source, i) THEN <<i>> ELSE <<>>) \o FilterFrom(source, i + 1)

\* ScrapingSource.objects.filter(name__iexact=source, is_active=True), or
\* filter(is_active=True) when no source is named.
Filter(source) == FilterFrom(source, 1)

\* A handle that does not check the API key.
ConfigErrorNoKeyCheck(e) ==
    IF e.source # "" /\ Len(Filter(e.source)) = 0 THEN "No active source named"
    ELSE IF e.live = {} THEN "A 'NewsListPage' must be created in Wagtail first."
    ELSE ""

\* Lines 46-66: the error handle logs before it returns early, "" if none.
ConfigError(e) ==
    IF e.api_key = "" THEN "Config failed: GOOGLE_API_KEY not found."
    ELSE IF e.source # "" /\ Len(Filter(e.source)) = 0 THEN "No active source named"
    ELSE IF e.live = {} THEN "A 'NewsListPage' must be created in Wagtail first."
    ELSE ""

\* NewsListPage.objects.live().first()
First(live) == CHOOSE id \in live : \A other \in live : id <= other

\* handle, lines 45-66: a new process runs the command.
Invoke(e, seed) ==
    /\ pc \in {"idle", "done", "returned", "raised"}
    /\ env' = e
    /\ response' = <<>>
    /\ verdict' = "none"
    /\ arts' = <<>>
    /\ next' = 1
    /\ failed' = {}
    /\ UNCHANGED store
    /\ IF ConfigError(e) # ""
       THEN /\ trace' = <<Error(0, ConfigError(e))>>
            /\ pc' = "returned"
            /\ sources' = <<>>
            /\ UNCHANGED hashSeed
       ELSE /\ trace' = <<>>
            /\ pc' = "loop"
            /\ sources' = Filter(e.source)
            /\ hashSeed' = seed

\* handle, line 72: the loop is over. The locals of the last call of
\* scrape_source are gone.
Complete ==
    /\ pc = "loop"
    /\ next > Len(sources)
    /\ trace' = <<Info(0, "All scraping tasks complete.")>>
    /\ pc' = "done"
    /\ response' = <<>>
    /\ verdict' = "none"
    /\ UNCHANGED <<env, hashSeed, store, sources, next, arts, failed>>

\* ---------------------------------------------------------- scrape_source

\* The next source, or the end of the run, after scrape_source returned.
Return == /\ pc' = "loop"
          /\ next' = next + 1

\* What requests.get and select_one can do.
FetchOutcomes == {"ok", "RequestException", "SelectorMiss"}

\* A fetch stage that goes on to the model when the selector matches nothing.
FetchStageNoReturn(outcome) ==
    CASE outcome = "RequestException" -> [to |-> "return", log |-> <<"URL fetch error">>]
      [] outcome = "SelectorMiss" -> [to |-> "extract", log |-> <<"Could not find selector">>]
      [] OTHER -> [to |-> "extract", log |-> <<>>]

\* Lines 75-86: where the fetch stage leads and the errors it logs.
FetchStage(outcome) ==
    CASE outcome = "RequestException" -> [to |-> "return", log |-> <<"URL fetch error">>]
      [] outcome = "SelectorMiss" -> [to |-> "return", log |-> <<"Could not find selector">>]
      [] OTHER -> [to |-> "extract", log |-> <<>>]

Errors(src, log) == [i \in 1..Len(log) |-> Error(src, log[i])]

\* handle, lines 68-70, and scrape_source, lines 75-86: the next source is
\* announced and its page fetched.
Fetch(outcome) ==
    /\ pc = "loop"
    /\ next <= Len(sources)
    /\ LET r == FetchStage(outcome)
       IN  /\ trace' = <<Info(next, "Scraping source"), Event("http", next, "GET")>>
                        \o Errors(next, r.log)
           /\ failed' = IF Len(r.log) > 0 THEN failed \cup {next} ELSE failed
           /\ IF r.to = "return" THEN Return ELSE pc' = "extract" /\ UNCHANGED next
    /\ response' = <<>>
    /\ verdict' = "none"
    /\ UNCHANGED <<env, hashSeed, store, sources, arts>>

Failed(v, log) == [verdict |-> v, articles |-> <<>>, log |-> log]

\* Lines 97-113: the model's reply is cleaned, parsed and validated. Every
\* exception of the block is caught and logged.
GeminiStage(reply) ==
    IF reply.raises
    THEN Failed("ExtractionFailed", <<"Gemini processing failed">>)
    ELSE IF ~reply.parts
    THEN Failed("EmptyCompletion", <<"Gemini returned an empty response.", "Reason">>)
    ELSE LET cleaned_response == clean_json_response(reply.text)
         IN  IF ~cleaned_response.found
             THEN Failed("NoJsonFound", <<"Could not find a valid JSON object", "RAW RESPONSE">>)
             ELSE LET parsed_data == JsonLoads(cleaned_response.text)
                  IN  IF ~parsed_data.ok
                      THEN Failed("MalformedJson", <<"Gemini processing failed">>)
                      ELSE LET validated_articles == ArticleList(parsed_data.val)
                           IN  IF ~validated_articles.ok
                               THEN Failed("SchemaInvalid", <<"Gemini processing failed">>)
                               ELSE [verdict |-> "Validated",
                                     articles |-> validated_articles.articles,
                                     log |-> <<>>]

\* scrape_source, lines 88-113, and an empty loop of line 115.
Extract(reply) ==
    /\ pc = "extract"
    /\ LET r == GeminiStage(reply)
       IN  /\ trace' = Append(trace, Event("model", next, "generate_content"))
                           \o Errors(next, r.log)
           /\ failed' = IF Len(r.log) > 0 THEN failed \cup {next} ELSE failed
           /\ verdict' = r.verdict
           /\ arts' = r.articles
           /\ IF Len(r.articles) = 0
              THEN Return
              ELSE pc' = "upsert" /\ UNCHANGED next
    /\ response' = reply.text
    /\ UNCHANGED <<env, hashSeed, store, sources>>

\* hash(title): 0 for the empty string, seeded otherwise.
Hash(title) == IF title = "" THEN 0 ELSE hashSeed[title]

\* slug=f"article-gemini-{hash(article_data.title) % 100000}"
Slug(title) == Hash(title) % SlugMod

\* NewsArticlePage.objects.get(source_url=...): the rows that match.
Get(source_url) == {i \in 1..Len(store) : store[i].source_url = source_url}

\* What Page.save checks (full_clean) and the unique source_url column:
\* a title, a slug no sibling has, a source_url no other row has.
Clean(page, self) ==
    /\ page.title # ""
    /\ \A i \in 1..Len(store) : i # self =>
          /\ ~(store[i].parent = page.parent /\ store[i].slug = page.slug)
          /\ store[i].source_url # page.source_url

\* The exception of a write: full_clean comes before the database.
Refusal(page, self, db_ok) ==
    IF page.title = "" THEN "ValidationError: title"
    ELSE IF ~Clean(page, self) THEN "ValidationError: slug or source_url in use"
    ELSE IF ~db_ok THEN "DatabaseError"
    ELSE ""

\* An update that forgets the summary.
UpdatedTitleOnly(page, article_data) ==
    [page EXCEPT !.title = article_data.title]

\* Lines 118-119.
Updated(page, article_data) ==
    [page EXCEPT !.title = article_data.title, !.summary = article_data.summary]

\* Lines 123-129.
NewPage(article_data) ==
    [title |-> article_data.title,
     summary |-> article_data.summary,
     source_url |-> StrUrl(article_data.source_url),
     publication_date |-> env.today,
     slug |-> Slug(article_data.title),
     parent |-> First(env.live)]

\* A save that inserts a new row.
SaveInserts(i, page) == Append(store, page)

\* existing_page.save(), line 120.
Save(i, page) == [store EXCEPT ![i] = page]

\* news_list_page.add_child(instance=new_page), line 130.
AddChild(page) == Append(store, page)

\* The loop of line 115 goes on, or scrape_source returns.
NextArticle ==
    /\ arts' = Tail(arts)
    /\ IF Len(arts) = 1 THEN Return ELSE pc' = "upsert" /\ UNCHANGED next

\* An exception leaves scrape_source and handle: nothing is logged, the
\* locals are gone, the process ends with a traceback.
Raise(exception) ==
    /\ pc' = "raised"
    /\ arts' = <<>>
    /\ response' = <<>>
    /\ verdict' = "none"
    /\ trace' = <<Event("traceback", next, exception)>>
    /\ UNCHANGED <<store, next>>

\* scrape_source, lines 115-131, for one article. db_ok is FALSE when the
\* database refuses the write. Only DoesNotExist is caught.
Upsert(db_ok) ==
    /\ pc = "upsert"
    /\ LET article_data == Head(arts)
           found == Get(StrUrl(article_data.source_url))
       IN  IF Cardinality(found) > 1
           THEN Raise("MultipleObjectsReturned")
           ELSE IF found # {}
           THEN LET i == CHOOSE i \in found : TRUE
                    existing_page == Updated(store[i], article_data)
                IN  IF db_ok /\ Clean(existing_page, i)
                    THEN /\ store' = Save(i, existing_page)
                         /\ trace' = trace \o <<Event("update", next, existing_page.source_url),
                                                Info(next, "Updated")>>
                         /\ NextArticle
                         /\ UNCHANGED <<response, verdict>>
                    ELSE Raise(Refusal(existing_page, i, db_ok))
           ELSE LET new_page == NewPage(article_data)
                IN  IF db_ok /\ Clean(new_page, 0)
                    THEN /\ store' = AddChild(new_page)
                         /\ trace' = trace \o <<Event("create", next, new_page.source_url),
                                                Info(next, "Added")>>
                         /\ NextArticle
                         /\ UNCHANGED <<response, verdict>>
                    ELSE Raise(Refusal(new_page, 0, db_ok))
    /\ UNCHANGED <<env, hashSeed, sources, failed>>

Next ==
    \/ \E e \in [api_key : ApiKeys, source : SourceOptions, live : LiveListings, today : Days],
          seed \in HashSeeds : Invoke(e, seed)
    \/ Complete
    \/ \E outcome \in FetchOutcomes : Fetch(outcome)
    \/ \E reply \in RunReplies : Extract(reply)
    \/ \E db_ok \in BOOLEAN : Upsert(db_ok)

Spec == Init /\ [][Next]_vars

\* The validator on every text of Texts: one run over one source whose
\* page is fetched, in a configuration without error.
ValidatorEnv == [api_key |-> "key", source |-> "CNN", live |-> {1, 2}, today |-> 1]

NextValidator ==
    \/ \E seed \in HashSeeds : pc = "idle" /\ Invoke(ValidatorEnv, seed)
    \/ Complete
    \/ Fetch("ok")
    \/ \E reply \in ValidatorReplies : Extract(reply)
    \/ \E db_ok \in BOOLEAN : Upsert(db_ok)

ValidatorSpec == Init /\ [][NextValidator]_vars

\* ----------------------------------------------------------------- claims

Last(seq) == seq[Len(seq)]

\* The positions of the entries of trace of one kind for one source.
Entries(tr, ev, src) == {i \in 1..Len(tr) : tr[i].ev = ev /\ tr[i].src = src}

\* The step ends with the log line of a successful upsert.
UpsertSucceeds ==
    /\ Len(trace') = Len(trace) + 2
    /\ Last(trace').ev = "info"

\* C1: no invocation of handle lets an exception escape, and a run that
\* went through its sources ends with the line "All scraping tasks
\* complete.".
C1_HandleNeverRaises ==
    /\ pc # "raised"
    /\ pc = "done" => Last(trace) = Info(0, "All scraping tasks complete.")

\* C2: the store never holds two pages with the same source_url.
C2_OnePagePerSourceUrl ==
    \A i, j \in 1..Len(store) : i # j => store[i].source_url # store[j].source_url

\* A source_url was created and then seen again in the same run, and the
\* store holds its one page.
C2_Witness ==
    \E i, j \in 1..Len(trace) :
        /\ i < j
        /\ trace[i].ev = "create"
        /\ trace[j].ev = "update"
        /\ trace[i].what = trace[j].what
        /\ Cardinality(Get(trace[i].what)) = 1

\* The store after the candidate was created as one new page, a child of
\* the listing node.
CreatesOne(a) ==
    /\ Len(store') = Len(store) + 1
    /\ SubSeq(store', 1, Len(store)) = store
    /\ Last(store').title = a.title
    /\ Last(store').summary = a.summary
    /\ Last(store').source_url = StrUrl(a.source_url)
    /\ Last(store').parent = First(env.live)

\* The store after the page of the candidate's source_url was updated in
\* place.
UpdatesInPlace(a) ==
    /\ Len(store') = Len(store)
    /\ \A i \in 1..Len(store) :
          IF store[i].source_url = StrUrl(a.source_url)
          THEN store'[i] = [store[i] EXCEPT !.title = a.title, !.summary = a.summary]
          ELSE store'[i] = store[i]

UpsertsOne(a) ==
    IF \E i \in 1..Len(store) : store[i].source_url = StrUrl(a.source_url)
    THEN UpdatesInPlace(a)
    ELSE CreatesOne(a)

\* The database refuses the write of the step.
DatabaseRefuses == trace' = <<Event("traceback", next, "DatabaseError")>>

\* C3 as stated, for a candidate with a title and a database that takes the
\* write: the upsert creates exactly one page when the source_url is new,
\* and updates the existing page in place when it is not.
C3_UpsertAlwaysCreatesOrUpdates ==
    [][(pc = "upsert" /\ Head(arts).title # "" /\ ~DatabaseRefuses) =>
          UpsertsOne(Head(arts))]_vars

\* C3 amended: unless the write raises, the upsert of a validated candidate
\* creates exactly one page when its source_url is new and updates the
\* existing page in place when it is not; when the write raises, the store
\* is left as it was.
C3_UpsertCreatesOrUpdatesUnlessRaises ==
    [][pc = "upsert" =>
          IF pc' = "raised" THEN store' = store ELSE UpsertsOne(Head(arts))]_vars

\* In one pass a page was created from T1/S1 and updated in place to
\* T2/S2: it is the only page and keeps the slug of T1.
C3_Witness ==
    /\ Len(store) = 1
    /\ store[1].title = "T2"
    /\ store[1].summary = "S2"
    /\ store[1].slug = Slug("T1")
    /\ Slug("T1") # Slug("T2")
    /\ \E i, j \in 1..Len(trace) :
          /\ i < j
          /\ trace[i].ev = "create"
          /\ trace[j].ev = "update"
          /\ trace[i].what = store[1].source_url
          /\ trace[j].what = store[1].source_url

\* C4: an upsert that fails logs an error, skips that article only, and the
\* loop goes on to the remaining articles of the source.
C4_FailedUpsertSkipsOneArticle ==
    [][(pc = "upsert" /\ ~UpsertSucceeds) =>
          /\ pc' \in {"upsert", "loop"}
          /\ arts' = Tail(arts)
          /\ Len(trace') = Len(trace) + 1
          /\ Last(trace').ev = "error"]_vars

\* C5: at the end of a run, every source after one whose stage failed has
\* been processed to the end of its pass.
C5_SourcesAfterFailureProcessed ==
    pc \in {"done", "raised"} =>
        \A s \in failed : \A t \in (s + 1)..Len(sources) : t < next

\* The configuration of the run is in error, stated on the environment.
IsConfigError(e) ==
    \/ e.api_key = ""
    \/ /\ e.source # ""
       /\ ~\E i \in 1..Len(ScrapingSource) :
              ScrapingSource[i].is_active /\ Lower(ScrapingSource[i].name) = Lower(e.source)
    \/ e.live = {}

\* C6: a run whose configuration is in error returns at once: its trace is
\* one error line, with no HTTP request and no model call, and the store is
\* as it was.
C6_ConfigErrorAborts ==
    /\ [](pc # "idle" /\ IsConfigError(env) =>
            /\ pc = "returned"
            /\ Len(trace) = 1
            /\ trace[1].ev = "error"
            /\ trace[1].src = 0)
    /\ [][IsConfigError(env') => store' = store]_vars

\* A run without API key has returned, over a store that holds a page.
C6_Witness ==
    /\ pc = "returned"
    /\ env.api_key = ""
    /\ Len(store) > 0

\* The step logs the failure of the fetch stage or of the model stage.
StageFails ==
    /\ pc \in {"loop", "extract"}
    /\ Len(trace') > 0
    /\ Last(trace').ev = "error"

\* C7: the step in which a stage of a source fails ends the pass of that
\* source with no page written and no later stage run; a selector miss has
\* made no model call; no page is written before the upsert stage.
C7_StageFailureEndsPass ==
    [][/\ pc \in {"loop", "extract"} => store' = store
       /\ StageFails =>
             /\ pc' = "loop"
             /\ next' = next + 1
             /\ arts' = <<>>
             /\ Last(trace').what = "Could not find selector" =>
                   Entries(trace', "model", next) = {}]_vars

\* A selector miss ended the pass of a source, over a store that holds a
\* page.
C7_Witness ==
    /\ pc = "loop"
    /\ Len(trace) > 0
    /\ Last(trace).what = "Could not find selector"
    /\ Len(store) > 0

\* Every token of seq is prose.
IsProse(seq) == \A i \in 1..Len(seq) : seq[i].t = "p"

\* The text is one well-formed JSON object with prose around it.
SingleObjectInProse(text) ==
    \E i, j \in 1..Len(text) :
        /\ i <= j
        /\ text[i].t = "{"
        /\ IsProse(SubSeq(text, 1, i - 1))
        /\ IsProse(SubSeq(text, j + 1, Len(text)))
        /\ JsonLoads(SubSeq(text, i, j)).ok

Lacks(text, t) == ~\E i \in 1..Len(text) : text[i].t = t

\* A response with a text was received for the current source.
TextReceived == verdict \notin {"none", "ExtractionFailed", "EmptyCompletion"}

HasArticleList(text) ==
    /\ clean_json_response(text).found
    /\ JsonLoads(clean_json_response(text).text).ok
    /\ LET val == JsonLoads(clean_json_response(text).text).val
       IN  /\ val.type = "obj"
           /\ Lookup(val.members, "articles", Len(val.members)).has
           /\ Lookup(val.members, "articles", Len(val.members)).val.type = "arr"

\* The article objects of the parsed response.
ArticleObjects(text) ==
    LET val == JsonLoads(clean_json_response(text).text).val
    IN  Lookup(val.members, "articles", Len(val.members)).val.elems

HasKey(obj, k) == \E i \in 1..Len(obj.members) : obj.members[i].k = k

\* The URL texts of the model that are absolute http URLs.
AbsoluteUrls == {"http://x/a", "http://x", "http://x/"}

\* The article object lacks a title, lacks a summary, or has no source_url
\* that is an absolute URL.
Defective(obj) ==
    \/ ~HasKey(obj, "title")
    \/ ~HasKey(obj, "summary")
    \/ ~\E i \in 1..Len(obj.members) :
           /\ obj.members[i].k = "source_url"
           /\ obj.members[i].val.type = "str"
           /\ obj.members[i].val.s \in AbsoluteUrls

\* C9: a parsed response with a defective article object is rejected as a
\* whole; a validated response has no defective article object.
C9_DefectiveArticleRejectsResponse ==
    (TextReceived /\ HasArticleList(response)) =>
        LET objs == ArticleObjects(response)
        IN  /\ (\E i \in 1..Len(objs) : Defective(objs[i])) =>
                  verdict = "SchemaInvalid" /\ arts = <<>>
            /\ verdict = "Validated" => \A i \in 1..Len(objs) : ~Defective(objs[i])

\* A response with a sound and a defective article object was rejected.
C9_Witness ==
    /\ verdict = "SchemaInvalid"
    /\ HasArticleList(response)
    /\ \E i \in 1..Len(ArticleObjects(response)) : Defective(ArticleObjects(response)[i])
    /\ \E i \in 1..Len(ArticleObjects(response)) : ~Defective(ArticleObjects(response)[i])

\* The article object has the empty string as its title.
EmptyTitle(obj) ==
    \E i \in 1..Len(obj.members) :
        /\ obj.members[i].k = "title"
        /\ obj.members[i].val.type = "str"
        /\ obj.members[i].val.s = ""

\* C10: a parsed response with an article object whose title is the empty
\* string is rejected as a schema violation, and its pass writes no page.
C10_EmptyTitleRejected ==
    (TextReceived /\ HasArticleList(response)
        /\ \E i \in 1..Len(ArticleObjects(response)) : EmptyTitle(ArticleObjects(response)[i]))
    =>  /\ verdict = "SchemaInvalid"
        /\ arts = <<>>
        /\ Entries(trace, "create", next) = {}
        /\ Entries(trace, "update", next) = {}

====
